---- MODULE Spec2Model ----
(***************************************************************************)
(* Model of shareholder_agent_dify.py: the document normalizer             *)
(* (read_word_doc), the per-row orchestration (process_excel_row) and the  *)
(* batch driver (main).                                                    *)
(*                                                                         *)
(* Strings are sequences of characters; a character is a one-symbol TLA+   *)
(* string.  The CJK characters of the source are written in ASCII:         *)
(*   "DI" = U+7B2C, "TIAO" = U+6761, "YI"/"SHI" = two members of the       *)
(*   numeral class of page_num_re, TAB = tab, NL = line feed.              *)
(* The dictionary keys and sentinels of the source are written             *)
(*   "summary" (gai kuo zong jie), "clause_id" (tiao kuan bian hao),       *)
(*   "clause_text" (tiao kuan yuan wen), "category" (tiao kuan lei bie),   *)
(*   "content" (tiao kuan / nei rong), "instructions" (tian xie shuo       *)
(*   ming), NOT_EXTRACTED (wei ti qu), PROCESS_FAILED (chu li shi bai).    *)
(***************************************************************************)
EXTENDS Integers, Sequences, FiniteSets, TLC

VARIABLES
    doc,        \* SpecNorm: the document handed to read_word_doc
    npc,        \* SpecNorm: position: "start", "read", "again"
    ret,        \* SpecNorm: what read_word_doc returned
    ret2,       \* SpecNorm: what normalizing the lines of ret returned
    row,        \* SpecRow: the spreadsheet row handed to process_excel_row
    reply,      \* SpecRow: what the service did with the row's request
    rpc,        \* SpecRow: position: "call", "returned"
    result,     \* SpecRow: how the call of process_excel_row ended
    word_paths, \* Spec: config['word_paths'], the documents in order
    excel,      \* Spec: the spreadsheet at config['excel_path']
    pc,         \* Spec: position in main
    wi,         \* Spec: index of the current document in word_paths
    idx,        \* Spec: index of the current row of df
    file_content, \* Spec: the normalized text of the current document
    result_df,  \* Spec: the table being filled for the current document
    outputs,    \* Spec: per document, the file written by to_excel
    hist        \* Spec: per document, what happened to it

nvars == << doc, npc, ret, ret2 >>
rvars == << row, reply, rpc, result >>
mvars == << word_paths, excel, pc, wi, idx, file_content, result_df, outputs, hist >>
vars == << nvars, rvars, mvars >>

(***************************************************************************)
(* Characters                                                              *)
(***************************************************************************)
DI == "DI"
TIAO == "TIAO"
TAB == "TAB"
NL == "NL"
SP == " "
DOT == "."
Numerals == {"YI", "SHI"}
Whitespace == {SP, TAB, NL}

\* Bounds of the normalizer's inputs.
MaxParas == 2
MaxParaLen == 2

Alphabet == {DI, "YI", TIAO, DOT, TAB, NL, "a"}

RECURSIVE StringsUpTo(_)
StringsUpTo(n) ==
    IF n = 0 THEN {<< >>}
    ELSE LET shorter == StringsUpTo(n - 1)
         IN shorter \cup {Append(s, c) : s \in shorter, c \in Alphabet}

\* Paragraphs longer than MaxParaLen that exercise each rule of the loop.
LongParas ==
    { << DI, "YI", TIAO >>,                    \* a bare heading
      << DI, "YI", "SHI", TIAO >>,             \* a heading with two numerals
      << DI, "YI", TIAO, SP, "a" >>,           \* a heading followed by clause text
      << "a", DI, "YI", TIAO >>,               \* a heading token not at the start
      << SP, DI, "YI", TIAO, TAB >>,           \* a heading inside whitespace
      << DOT, DOT, DOT, DOT >>,                \* table-of-contents leader
      << "a", DOT, DOT, DOT, DOT, DOT, "a" >>,
      << DOT, DOT, DOT >>,
      << "a", TAB, "a" >>,
      << "a", NL, DI, "YI", TIAO >>,           \* a line break inside a paragraph
      << "a", NL, NL, NL, "a" >>,
      << "a", NL, DOT, DOT, DOT, DOT >> }

\* The paragraphs tried: every string of at most n characters, and LongParas.
ParaPool(n) == StringsUpTo(n) \cup LongParas

RECURSIVE SeqsUpTo(_, _)
SeqsUpTo(S, n) ==
    IF n = 0 THEN {<< >>}
    ELSE LET shorter == SeqsUpTo(S, n - 1)
         IN shorter \cup {Append(s, x) : s \in shorter, x \in S}

(***************************************************************************)
(* read_word_doc                                                           *)
(***************************************************************************)
RECURSIVE LStrip(_)
LStrip(s) ==
    IF s # << >> /\ Head(s) \in Whitespace THEN LStrip(Tail(s)) ELSE s

RECURSIVE RStrip(_)
RStrip(s) ==
    IF s # << >> /\ s[Len(s)] \in Whitespace
    THEN RStrip(SubSeq(s, 1, Len(s) - 1)) ELSE s

\* str.strip()
Strip(s) == RStrip(LStrip(s))

\* page_num_re.match(text): the pattern is anchored at the start only.
PageNumMatch(text) ==
    /\ Len(text) >= 3
    /\ text[1] = DI
    /\ \E k \in 1..(Len(text) - 2) :
          /\ \A j \in 2..(k + 1) : text[j] \in Numerals
          /\ text[k + 2] = TIAO

\* dots_re.search(text): four or more consecutive periods anywhere.
DotsSearch(text) ==
    \E i \in 1..(Len(text) - 3) : \A j \in i..(i + 3) : text[j] = DOT

\* text.replace('\t', ' ')
ReplaceTab(s) == [i \in 1..Len(s) |-> IF s[i] = TAB THEN SP ELSE s[i]]

\* One iteration of the paragraph loop.  acc.full_text is the list being
\* built; acc.disp records, per paragraph, which branch the iteration took.
LoopBody(acc, para) ==
    LET text == Strip(para)
        ft == acc.full_text
    IN  IF PageNumMatch(text) \/ DotsSearch(text)
        THEN [acc EXCEPT !.disp =
                 Append(@, IF PageNumMatch(text) THEN "heading" ELSE "dots")]
        ELSE IF text = << >> /\ ft # << >> /\ ft[Len(ft)] = << NL >>
        THEN [acc EXCEPT !.disp = Append(@, "blank")]
        ELSE [full_text |-> Append(ft, ReplaceTab(text) \o << NL >>),
              disp |-> Append(acc.disp, "kept")]

RECURSIVE Loop(_, _)
Loop(acc, paras) ==
    IF paras = << >> THEN acc
    ELSE Loop(LoopBody(acc, Head(paras)), Tail(paras))

\* ''.join(full_text)
RECURSIVE Join(_)
Join(ft) == IF ft = << >> THEN << >> ELSE Head(ft) \o Join(Tail(ft))

\* str.replace('\n\n', '\n'): one left-to-right pass over non-overlapping
\* occurrences.
RECURSIVE ReplaceNN(_)
ReplaceNN(s) ==
    IF s = << >> THEN << >>
    ELSE IF Len(s) >= 2 /\ s[1] = NL /\ s[2] = NL
    THEN << NL >> \o ReplaceNN(SubSeq(s, 3, Len(s)))
    ELSE << s[1] >> \o ReplaceNN(Tail(s))

\* The value returned by read_word_doc: ok = FALSE is None.
None == [ok |-> FALSE, text |-> << >>, disp |-> << >>]

read_word_doc(d) ==
    IF ~d.opens THEN None
    ELSE LET acc == Loop([full_text |-> << >>, disp |-> << >>], d.paras)
         IN [ok |-> TRUE,
             text |-> ReplaceNN(Join(acc.full_text)),
             disp |-> acc.disp]

\* The lines of a newline-delimited text, terminators removed.
RECURSIVE SplitLines(_, _)
SplitLines(s, cur) ==
    IF s = << >> THEN (IF cur = << >> THEN << >> ELSE << cur >>)
    ELSE IF Head(s) = NL THEN << cur >> \o SplitLines(Tail(s), << >>)
    ELSE SplitLines(Tail(s), Append(cur, Head(s)))

\* Documents of at most m paragraphs.
Docs(m, n) == [opens : BOOLEAN, paras : SeqsUpTo(ParaPool(n), m)]

NormInit ==
    /\ row = {} /\ reply = 0 /\ rpc = "" /\ result = 0
    /\ word_paths = << >> /\ excel = 0 /\ pc = "" /\ wi = 0 /\ idx = 0
    /\ file_content = 0 /\ result_df = 0 /\ outputs = << >> /\ hist = << >>
    /\ doc \in Docs(MaxParas, MaxParaLen)
    /\ npc = "start"
    /\ ret = None
    /\ ret2 = None

\* Normalize the document.
Normalize ==
    /\ npc = "start"
    /\ ret' = read_word_doc(doc)
    /\ npc' = "read"
    /\ UNCHANGED << doc, ret2 >>
    /\ UNCHANGED << rvars, mvars >>

\* Normalize the already normalized text, taken line by line.
Renormalize ==
    /\ npc = "read"
    /\ ret.ok
    /\ ret2' = read_word_doc([opens |-> TRUE, paras |-> SplitLines(ret.text, << >>)])
    /\ npc' = "again"
    /\ UNCHANGED << doc, ret >>
    /\ UNCHANGED << rvars, mvars >>

NormNext == Normalize \/ Renormalize

SpecNorm == NormInit /\ [][NormNext]_vars

(***************************************************************************)
(* process_excel_row                                                       *)
(***************************************************************************)
\* Python values: a str, None, or an int.
Str(x) == [py |-> "str", v |-> x, r |-> 0]
PyNone == [py |-> "NoneType", v |-> "", r |-> 0]
PyInt == [py |-> "int", v |-> "7", r |-> 0]
IsStr(x) == x.py = "str"

NOT_EXTRACTED == Str("NOT_EXTRACTED")
PROCESS_FAILED == Str("PROCESS_FAILED")

RequiredFields == << "category", "content", "instructions" >>
OutCols == << "summary", "clause_id", "clause_text", "error" >>
ResultKeys == {"summary", "clause_id", "clause_text"}

\* Bound of the Answer text, in tokens.
MaxAnswerLen == 4

\* The Answer text as tokens: OPEN is the opening fence (three backticks and
\* "json"), CLOSE is three backticks, WS is whitespace, TXT is text that is
\* neither JSON nor holds a backtick, JSON is the text of the reply's value.
OPEN == "OPEN"
CLOSE == "CLOSE"
Tokens == {OPEN, CLOSE, "WS", "TXT", "JSON"}
\* Both fences start with three backticks.
HasBackticks(t) == t \in {OPEN, CLOSE}

RECURSIVE TokensUpTo(_)
TokensUpTo(n) ==
    IF n = 0 THEN {<< >>}
    ELSE LET shorter == TokensUpTo(n - 1)
         IN shorter \cup {Append(s, t) : s \in shorter, t \in Tokens}

\* JSON texts the service can put in a block: any object over the three
\* result keys with string, null or number members, and an array.
MemberValues == {Str("v"), PyNone, PyInt}
JsonObjects ==
    {[type |-> "object", members |-> m] :
        m \in UNION {[D -> MemberValues] : D \in SUBSET ResultKeys}}
JsonArray == [type |-> "array", members |-> << >>]
JsonValues == JsonObjects \cup {JsonArray}

\* What requests.post / raise_for_status / response.json() do with a request.
NoRequest == [kind |-> "NoRequest", msg |-> "", answer |-> << >>, value |-> JsonArray]
TransportFailures ==
    {[kind |-> k[1], msg |-> k[2], answer |-> << >>, value |-> JsonArray] :
        k \in {<< "ConnectionError", "connection refused" >>,
               << "Timeout", "read timed out" >>,
               << "HTTPError", "500 Server Error" >>,
               << "JSONDecodeError", "body is not JSON" >>,
               << "NoAnswer", "'data'" >>}}
HasJsonToken(a) == \E i \in 1..Len(a) : a[i] = "JSON"
Bodies(n) ==
    {[kind |-> "Body", msg |-> "", answer |-> a, value |-> v] :
        a \in TokensUpTo(n), v \in JsonValues}
\* A reply whose Answer holds no JSON token carries the default value.
Replies(n) ==
    TransportFailures \cup
    {r \in Bodies(n) : HasJsonToken(r.answer) \/ r.value = JsonArray}

\* Search with a greedy group: the text up to the last three backticks.
Search_Greedy(answer) ==
    LET starts == {i \in 1..Len(answer) :
                      /\ answer[i] = OPEN
                      /\ \E j \in (i + 1)..Len(answer) : HasBackticks(answer[j])}
    IN IF starts = {} THEN [found |-> FALSE, group1 |-> << >>]
       ELSE LET i == CHOOSE x \in starts : \A y \in starts : x <= y
                j == CHOOSE x \in (i + 1)..Len(answer) :
                        /\ HasBackticks(answer[x])
                        /\ \A y \in (x + 1)..Len(answer) : ~HasBackticks(answer[y])
            IN [found |-> TRUE, group1 |-> SubSeq(answer, i + 1, j - 1)]

\* re.search(r'```json(.*?)```', answer, re.DOTALL): the leftmost opening
\* fence that is followed by three backticks, and the shortest text up to them.
ClosingAt(answer, i) ==
    CHOOSE j \in (i + 1)..Len(answer) :
        /\ HasBackticks(answer[j])
        /\ \A k \in (i + 1)..(j - 1) : ~HasBackticks(answer[k])
Search(answer) ==
    LET starts == {i \in 1..Len(answer) :
                      /\ answer[i] = OPEN
                      /\ \E j \in (i + 1)..Len(answer) : HasBackticks(answer[j])}
    IN IF starts = {} THEN [found |-> FALSE, group1 |-> << >>]
       ELSE LET i == CHOOSE x \in starts : \A y \in starts : x <= y
            IN [found |-> TRUE,
                group1 |-> SubSeq(answer, i + 1, ClosingAt(answer, i) - 1)]

RECURSIVE StripWS(_)
StripWS(s) ==
    IF s # << >> /\ Head(s) = "WS" THEN StripWS(Tail(s))
    ELSE IF s # << >> /\ s[Len(s)] = "WS" THEN StripWS(SubSeq(s, 1, Len(s) - 1))
    ELSE s

\* json.loads(text): the text must be exactly one JSON value.
Loads(text, value) ==
    IF text = << "JSON" >> THEN [raised |-> FALSE, value |-> value]
    ELSE [raised |-> TRUE, value |-> JsonArray]

\* dict.get(key, default)
Get(members, key, default) ==
    IF key \in DOMAIN members THEN members[key] ELSE default

Raise(cls, msg) ==
    [raised |-> TRUE, exc |-> [cls |-> cls, msg |-> msg],
     value |-> [summary |-> PyNone, clause_id |-> PyNone,
                clause_text |-> PyNone, error |-> PyNone]]
Return(v) ==
    [raised |-> FALSE, exc |-> [cls |-> "", msg |-> ""], value |-> v]

\* The body of the try block.
TryBody(r, rep) ==
    LET missing == {i \in 1..3 : RequiredFields[i] \notin r}
    IN
    IF missing # {}
    THEN Raise("KeyError",
               "'" \o RequiredFields[CHOOSE i \in missing : \A j \in missing : i <= j] \o "'")
    ELSE IF rep.kind \in {"ConnectionError", "Timeout", "HTTPError", "JSONDecodeError"}
    THEN Raise(rep.kind, rep.msg)
    ELSE IF rep.kind = "NoAnswer"
    THEN Raise("KeyError", rep.msg)
    ELSE LET json_match == Search(rep.answer)
         IN IF ~json_match.found
            THEN Raise("ValueError", "no valid JSON data found")
            ELSE LET loaded == Loads(StripWS(json_match.group1), rep.value)
                 IN IF loaded.raised
                    THEN Raise("JSONDecodeError", "Expecting value")
                    ELSE IF loaded.value.type # "object"
                    THEN Raise("AttributeError", "'list' object has no attribute 'get'")
                    ELSE Return(
                        [summary |-> Get(loaded.value.members, "summary", NOT_EXTRACTED),
                         clause_id |-> Get(loaded.value.members, "clause_id", NOT_EXTRACTED),
                         clause_text |-> Get(loaded.value.members, "clause_text", NOT_EXTRACTED),
                         error |-> Str("")])

\* except Exception: every class raised in the try block derives from Exception.
ExceptionClasses ==
    {"KeyError", "ConnectionError", "Timeout", "HTTPError", "JSONDecodeError",
     "ValueError", "AttributeError"}
\* An except clause that names the transport errors only.
Catches_TransportOnly(exc) == exc.cls \in {"ConnectionError", "Timeout", "HTTPError"}
Catches(exc) == exc.cls \in ExceptionClasses

\* process_excel_row without its try/except.
process_excel_row_NoExcept(r, rep) == TryBody(r, rep)

process_excel_row(r, rep) ==
    LET t == TryBody(r, rep)
    IN IF t.raised /\ Catches(t.exc)
       THEN Return([summary |-> PROCESS_FAILED,
                    clause_id |-> PROCESS_FAILED,
                    clause_text |-> PROCESS_FAILED,
                    error |-> Str(t.exc.msg)])
       ELSE t

FieldSet == {RequiredFields[i] : i \in 1..3}
Rows == SUBSET FieldSet
\* The request is sent only when the query could be built.
RepliesFor(r) == IF FieldSet \subseteq r THEN Replies(MaxAnswerLen) ELSE {NoRequest}

RowInit ==
    /\ doc = 0 /\ npc = "" /\ ret = 0 /\ ret2 = 0
    /\ word_paths = << >> /\ excel = 0 /\ pc = "" /\ wi = 0 /\ idx = 0
    /\ file_content = 0 /\ result_df = 0 /\ outputs = << >> /\ hist = << >>
    /\ row \in Rows
    /\ reply = NoRequest
    /\ rpc = "call"
    /\ result = Return([summary |-> PyNone, clause_id |-> PyNone,
                        clause_text |-> PyNone, error |-> PyNone])

\* One call of process_excel_row; the service answers with any reply.
CallProcessRow ==
    /\ rpc = "call"
    /\ \E rep \in RepliesFor(row) :
          /\ reply' = rep
          /\ result' = process_excel_row(row, rep)
    /\ rpc' = "returned"
    /\ UNCHANGED row
    /\ UNCHANGED << nvars, mvars >>

RowNext == CallProcessRow

SpecRow == RowInit /\ [][RowNext]_vars

(***************************************************************************)
(* main                                                                    *)
(***************************************************************************)
\* Bounds of the batch.
MaxDocs == 2
MaxRows == 2

\* A configured path: a missing file, a file python-docx cannot open, or a
\* document with its paragraphs.
MainParas ==
    { << >>,                              \* no paragraph at all
      << << DI, "YI", TIAO >> >>,         \* headings only
      << << "a" >>, << >>, << "a", TAB, "a" >> >> }
WordFiles ==
    {[exists |-> FALSE, opens |-> FALSE, paras |-> << >>],
     [exists |-> TRUE, opens |-> FALSE, paras |-> << >>]}
    \cup {[exists |-> TRUE, opens |-> TRUE, paras |-> ps] : ps \in MainParas}

\* The spreadsheet: its header row, in order, and its number of data rows.
\* At most one of the three required columns is absent; "notes" is a column
\* the program does not know; "error" is a column named like an output column.
Without(s, c) == SelectSeq(s, LAMBDA x : x # c)
Headers ==
    {req \o extra :
        req \in {RequiredFields} \cup {Without(RequiredFields, RequiredFields[i]) : i \in 1..3},
        extra \in {<< >>, << "notes" >>, << "error" >>, << "notes", "error" >>}}
Spreadsheets == [columns : Headers, nrows : 0..MaxRows]

ColSet(t) == {t.columns[i] : i \in 1..Len(t.columns)}
\* The text of the cell of data row i under column c.
Cell(i, c) == [py |-> "str", v |-> c, r |-> i]

\* pd.read_excel(config['excel_path'])
read_excel(x) ==
    [columns |-> x.columns,
     rows |-> [i \in 1..x.nrows |-> [c \in ColSet(x) |-> Cell(i, c)]]]

\* frame[c] = value: an existing column is overwritten in place, a new one
\* is appended.
SetColumn(t, c, value) ==
    [columns |-> IF c \in ColSet(t) THEN t.columns ELSE Append(t.columns, c),
     rows |-> [i \in 1..Len(t.rows) |->
                  [x \in ColSet(t) \cup {c} |-> IF x = c THEN value ELSE t.rows[i][x]]]]

\* result_df[[summary, clause_id, clause_text, error]] = ''
RECURSIVE SetColumns(_, _, _)
SetColumns(t, cols, value) ==
    IF cols = << >> THEN t
    ELSE SetColumns(SetColumn(t, Head(cols), value), Tail(cols), value)

\* for col in [...]: result_df.at[idx, col] = result[col]
RECURSIVE UpdateRow(_, _, _, _)
UpdateRow(t, i, cols, outcome) ==
    IF cols = << >> THEN t
    ELSE UpdateRow([t EXCEPT !.rows[i][Head(cols)] = outcome[Head(cols)]],
                   i, Tail(cols), outcome)

\* The replies the service gives in the batch.
PartObject ==
    [type |-> "object",
     members |-> [k \in {"summary", "clause_id"} |-> Str("v")]]
MainReplies ==
    {[kind |-> "Timeout", msg |-> "read timed out", answer |-> << >>, value |-> JsonArray],
     [kind |-> "Body", msg |-> "", answer |-> << OPEN, "JSON", CLOSE >>, value |-> PartObject]}

\* word_path.exists()
Exists(f) == f.exists

\* `continue` of the loop over word_paths.
Continue_Abort(i, n) == n + 1
Continue(i, n) == i + 1

\* `not file_content`: None and the empty string are both falsy.
Falsy(fc) == ~fc.ok \/ fc.text = << >>

NoTable == [columns |-> << >>, rows |-> << >>]
NoFile == [written |-> FALSE, table |-> NoTable]
NewHist ==
    [phase |-> << "Pending" >>, normalized |-> 0, excel_reads |-> 0,
     sent |-> << >>, got |-> << >>, outcomes |-> << >>]

Init ==
    /\ doc = 0 /\ npc = "" /\ ret = 0 /\ ret2 = 0
    /\ row = {} /\ reply = 0 /\ rpc = "" /\ result = 0
    /\ word_paths \in SeqsUpTo(WordFiles, MaxDocs)
    /\ excel \in Spreadsheets
    /\ pc = "for_word_path"
    /\ wi = 1
    /\ idx = 1
    /\ file_content = None
    /\ result_df = NoTable
    /\ outputs = [d \in 1..Len(word_paths) |-> NoFile]
    /\ hist = [d \in 1..Len(word_paths) |-> NewHist]

Note(d, name) == [hist EXCEPT ![d].phase = Append(@, name)]

\* The path does not exist: logged, next document.
SkipMissing ==
    /\ pc = "for_word_path"
    /\ wi <= Len(word_paths)
    /\ ~Exists(word_paths[wi])
    /\ hist' = Note(wi, "Missing")
    /\ wi' = Continue(wi, Len(word_paths))
    /\ UNCHANGED << word_paths, excel, pc, idx, file_content, result_df, outputs >>
    /\ UNCHANGED << nvars, rvars >>

\* read_word_doc, then `if not file_content: continue`.
ReadWord ==
    /\ pc = "for_word_path"
    /\ wi <= Len(word_paths)
    /\ Exists(word_paths[wi])
    /\ LET fc == read_word_doc(word_paths[wi])
           h == [hist[wi] EXCEPT
                   !.normalized = @ + 1,
                   !.phase = @ \o << "Normalizing",
                                     IF fc.ok THEN "Normalized" ELSE "NormalizeFailed" >>]
       IN /\ file_content' = fc
          /\ hist' = [hist EXCEPT ![wi] = h]
          /\ IF Falsy(fc)
             THEN /\ wi' = Continue(wi, Len(word_paths))
                  /\ pc' = pc
             ELSE /\ wi' = wi
                  /\ pc' = "read_excel"
    /\ UNCHANGED << word_paths, excel, idx, result_df, outputs >>
    /\ UNCHANGED << nvars, rvars >>

\* pd.read_excel raises: the handler of main logs it, next document.
ReadExcelFails ==
    /\ pc = "read_excel"
    /\ hist' = [hist EXCEPT ![wi].phase = Append(@, "SpreadsheetReadFailed"),
                            ![wi].excel_reads = @ + 1]
    /\ pc' = "for_word_path"
    /\ wi' = wi + 1
    /\ UNCHANGED << word_paths, excel, idx, file_content, result_df, outputs >>
    /\ UNCHANGED << nvars, rvars >>

\* pd.read_excel, df.copy() and the four blank columns.
ReadExcel ==
    /\ pc = "read_excel"
    /\ result_df' = SetColumns(read_excel(excel), OutCols, Str(""))
    /\ idx' = 1
    /\ hist' = [hist EXCEPT ![wi].phase = Append(@, "RowProcessing"),
                            ![wi].excel_reads = @ + 1]
    /\ pc' = "for_row"
    /\ UNCHANGED << word_paths, excel, wi, file_content, outputs >>
    /\ UNCHANGED << nvars, rvars >>

\* The log line of the row loop reads row['content'] outside
\* process_excel_row: a KeyError there reaches the handler of main.
LogRowFails ==
    /\ pc = "for_row"
    /\ idx <= excel.nrows
    /\ "content" \notin ColSet(excel)
    /\ hist' = Note(wi, "Abandoned")
    /\ pc' = "for_word_path"
    /\ wi' = wi + 1
    /\ UNCHANGED << word_paths, excel, idx, file_content, result_df, outputs >>
    /\ UNCHANGED << nvars, rvars >>

\* One iteration of the row loop: the log line, process_excel_row, and the
\* update of the row's four cells.  An exception leaving process_excel_row
\* reaches the handler of main.
ProcessRow ==
    /\ pc = "for_row"
    /\ idx <= excel.nrows
    /\ "content" \in ColSet(excel)
    /\ \E rep \in (IF FieldSet \subseteq ColSet(excel) THEN MainReplies ELSE {NoRequest}) :
          LET res == process_excel_row(ColSet(excel), rep)
              h == [hist[wi] EXCEPT
                      !.sent = Append(@, IF rep = NoRequest THEN 0 ELSE 1),
                      !.got = Append(@, rep)]
          IN IF res.raised
             THEN /\ hist' = [hist EXCEPT ![wi] = [h EXCEPT !.phase = Append(@, "Abandoned")]]
                  /\ pc' = "for_word_path"
                  /\ wi' = wi + 1
                  /\ UNCHANGED << idx, result_df >>
             ELSE /\ hist' = [hist EXCEPT ![wi] = [h EXCEPT !.outcomes = Append(@, res.value)]]
                  /\ result_df' = UpdateRow(result_df, idx, OutCols, res.value)
                  /\ idx' = idx + 1
                  /\ UNCHANGED << pc, wi >>
    /\ UNCHANGED << word_paths, excel, file_content, outputs >>
    /\ UNCHANGED << nvars, rvars >>

\* result_df.to_excel(output_path), after the last row.
SaveResult ==
    /\ pc = "for_row"
    /\ idx > excel.nrows
    /\ outputs' = [outputs EXCEPT ![wi] = [written |-> TRUE, table |-> result_df]]
    /\ hist' = Note(wi, "Written")
    /\ pc' = "for_word_path"
    /\ wi' = wi + 1
    /\ UNCHANGED << word_paths, excel, idx, file_content, result_df >>
    /\ UNCHANGED << nvars, rvars >>

\* The loop over word_paths is exhausted: main returns.
Finish ==
    /\ pc = "for_word_path"
    /\ wi > Len(word_paths)
    /\ pc' = "done"
    /\ UNCHANGED << word_paths, excel, wi, idx, file_content, result_df, outputs, hist >>
    /\ UNCHANGED << nvars, rvars >>

Next ==
    \/ SkipMissing
    \/ ReadWord
    \/ ReadExcelFails
    \/ ReadExcel
    \/ LogRowFails
    \/ ProcessRow
    \/ SaveResult
    \/ Finish

Spec == Init /\ [][Next]_vars

(***************************************************************************)
(* Properties of process_excel_row                                         *)
(***************************************************************************)
RowComplete == FieldSet \subseteq row
Quoted(f) == "'" \o f \o "'"
Outcome == result.value
AllFailed(o) ==
    /\ o.summary = PROCESS_FAILED
    /\ o.clause_id = PROCESS_FAILED
    /\ o.clause_text = PROCESS_FAILED

\* The failures the row can meet, stated on the inputs.
MissingField == ~RowComplete
TransportFailed == reply.kind \in {"ConnectionError", "Timeout", "HTTPError", "JSONDecodeError"}
AnswerAbsent == reply.kind = "NoAnswer"
\* The first opening fence and the nearest three backticks after it.
FirstOpen(a) == CHOOSE i \in 1..Len(a) : a[i] = OPEN /\ \A k \in 1..(i - 1) : a[k] # OPEN
HasBlock(a) ==
    /\ \E i \in 1..Len(a) : a[i] = OPEN
    /\ \E j \in (FirstOpen(a) + 1)..Len(a) : HasBackticks(a[j])
FirstBlock(a) ==
    LET i == FirstOpen(a)
        j == CHOOSE x \in (i + 1)..Len(a) :
                HasBackticks(a[x]) /\ \A k \in (i + 1)..(x - 1) : ~HasBackticks(a[k])
    IN StripWS(SubSeq(a, i + 1, j - 1))
NoFencedBlock == reply.kind = "Body" /\ ~HasBlock(reply.answer)
BlockNotJson ==
    reply.kind = "Body" /\ HasBlock(reply.answer) /\ FirstBlock(reply.answer) # << "JSON" >>
RowFailure ==
    MissingField \/ TransportFailed \/ AnswerAbsent \/ NoFencedBlock \/ BlockNotJson

\* C1: process_excel_row never propagates an exception: on a failure at any
\* step it returns the outcome whose three result fields are the
\* processing-failed sentinel and whose error is the failure's description.
C1_NeverPropagates ==
    rpc = "returned" =>
        /\ ~result.raised
        /\ RowFailure =>
              /\ AllFailed(Outcome)
              /\ IsStr(Outcome.error) /\ Outcome.error # Str("")
              /\ MissingField =>
                    \E f \in FieldSet \ row : Outcome.error = Str(Quoted(f))
              /\ (RowComplete /\ (TransportFailed \/ AnswerAbsent)) =>
                    Outcome.error = Str(reply.msg)
              /\ (RowComplete /\ NoFencedBlock) =>
                    Outcome.error = Str("no valid JSON data found")

C1_Witness ==
    /\ rpc = "returned"
    /\ reply.kind = "Timeout"
    /\ AllFailed(Outcome)
    /\ Outcome.error = Str("read timed out")

SuccessShape(o) ==
    /\ o.error = Str("")
    /\ \A k \in ResultKeys : IsStr(o[k])
FailureShape(o) ==
    /\ AllFailed(o)
    /\ IsStr(o.error) /\ o.error # Str("")

\* C2: every returned outcome has its four fields as non-null strings and
\* has exactly one of the success shape and the failure shape.
C2_WellShaped ==
    rpc = "returned" =>
        /\ ~result.raised
        /\ \A k \in {"summary", "clause_id", "clause_text", "error"} : IsStr(Outcome[k])
        /\ SuccessShape(Outcome) # FailureShape(Outcome)

\* The outcome is the success outcome holding exactly the object's members.
ExactSuccess ==
    /\ ~result.raised
    /\ Outcome.error = Str("")
    /\ \A k \in ResultKeys :
          Outcome[k] = IF k \in DOMAIN reply.value.members
                       THEN reply.value.members[k] ELSE NOT_EXTRACTED

\* C6 as stated: whenever the Answer contains some fenced block whose trimmed
\* content is a JSON object, the outcome is the success outcome with the
\* object's values, and the not-extracted sentinel for absent keys.
C6_AnyFencedBlock ==
    (/\ rpc = "returned" /\ RowComplete /\ reply.kind = "Body"
     /\ reply.value.type = "object"
     /\ \E i \in 1..Len(reply.answer), j \in 1..Len(reply.answer) :
           /\ i < j
           /\ reply.answer[i] = OPEN
           /\ reply.answer[j] = CLOSE
           /\ StripWS(SubSeq(reply.answer, i + 1, j - 1)) = << "JSON" >>)
    => ExactSuccess

\* C6 amended: whenever the text between the first opening fence of the
\* Answer and the nearest three backticks after it trims to a JSON object,
\* the outcome is the success outcome with the object's values, and the
\* not-extracted sentinel for absent keys.
C6_FirstFencedBlock ==
    (/\ rpc = "returned" /\ RowComplete /\ reply.kind = "Body"
     /\ reply.value.type = "object"
     /\ HasBlock(reply.answer)
     /\ FirstBlock(reply.answer) = << "JSON" >>)
    => ExactSuccess

C6_Witness ==
    /\ rpc = "returned" /\ RowComplete /\ reply.kind = "Body"
    /\ reply.answer = << "TXT", OPEN, "JSON", CLOSE >>
    /\ reply.value.type = "object"
    /\ DOMAIN reply.value.members = {"summary"}
    /\ Outcome.summary = Str("v")
    /\ Outcome.clause_id = NOT_EXTRACTED
    /\ Outcome.error = Str("")

(***************************************************************************)
(* Properties of main                                                      *)
(***************************************************************************)
DocIds == 1..Len(word_paths)
\* Document d has been dealt with: the loop has moved past it.
Past(d) == wi > d
Last(q) == q[Len(q)]
Visited(d, name) == \E k \in 1..Len(hist[d].phase) : hist[d].phase[k] = name
InputCols == ColSet(excel)
\* The outcome the row must get for the reply it got.
OutcomeFits(o, rep) ==
    /\ rep.kind = "Timeout" => (AllFailed(o) /\ o.error = Str(rep.msg))
    /\ rep.kind = "Body" =>
          /\ o.error = Str("")
          /\ \A k \in ResultKeys :
                o[k] = IF k \in DOMAIN rep.value.members
                       THEN rep.value.members[k] ELSE NOT_EXTRACTED

\* C3: every written output table has the input's rows in order, the
\* input's columns in order with unchanged values, then exactly the four
\* columns summary, clause_id, clause_text, error, whose cells in row i hold
\* the outcome of input row i.
C3_OutputTable ==
    \A d \in DocIds :
        outputs[d].written =>
            LET t == outputs[d].table
            IN /\ Len(t.rows) = excel.nrows
               /\ Len(hist[d].outcomes) = excel.nrows
               /\ t.columns = excel.columns \o OutCols
               /\ \A i \in 1..excel.nrows :
                     /\ \A c \in InputCols : t.rows[i][c] = Cell(i, c)
                     /\ \A k \in 1..4 : t.rows[i][OutCols[k]] = hist[d].outcomes[i][OutCols[k]]

\* C4: when the API call of one row of a document fails, that row gets the
\* failure outcome with the error populated, and every row of the document
\* is still sent exactly one request and gets the outcome its own reply
\* determines; the output is written.
C4_RowIsolation ==
    \A d \in DocIds :
        (Past(d) /\ \E i \in 1..Len(hist[d].got) : hist[d].got[i].kind = "Timeout") =>
            /\ outputs[d].written
            /\ Len(hist[d].sent) = excel.nrows
            /\ \A i \in 1..excel.nrows :
                  /\ hist[d].sent[i] = 1
                  /\ OutcomeFits(outputs[d].table.rows[i], hist[d].got[i])

C4_Witness ==
    /\ pc = "done"
    /\ Len(word_paths) >= 1
    /\ excel.nrows = 2
    /\ Len(hist[1].got) = 2
    /\ hist[1].got[1].kind = "Timeout"
    /\ hist[1].got[2].kind = "Body"
    /\ outputs[1].written
    /\ AllFailed(outputs[1].table.rows[1])
    /\ outputs[1].table.rows[2]["summary"] = Str("v")

\* What document d comes to, from its own file, its own read of the
\* spreadsheet and the replies to its own rows.
OwnResult(d) ==
    LET f == word_paths[d]
        usable == f.opens /\ hist[d].phase[3] = "Normalized" /\ ~Falsy(read_word_doc(f))
    IN /\ hist[d].normalized = 1
       /\ hist[d].excel_reads = (IF usable THEN 1 ELSE 0)
       /\ outputs[d].written <=>
             /\ usable
             /\ Visited(d, "RowProcessing")
             /\ ("content" \in InputCols \/ excel.nrows = 0)
       /\ outputs[d].written =>
             /\ Len(outputs[d].table.rows) = excel.nrows
             /\ FieldSet \subseteq InputCols =>
                   \A i \in 1..excel.nrows :
                       /\ hist[d].sent[i] = 1
                       /\ OutcomeFits(outputs[d].table.rows[i], hist[d].got[i])

\* C5: a path that does not exist is skipped: it is not normalized, no
\* request is sent and no output is written for it; every other document is
\* still processed, to the result its own inputs determine.
C5_MissingSkipped ==
    pc = "done" =>
        \A d \in DocIds :
            IF ~word_paths[d].exists
            THEN /\ hist[d].phase = << "Pending", "Missing" >>
                 /\ hist[d].normalized = 0
                 /\ hist[d].excel_reads = 0
                 /\ hist[d].sent = << >>
                 /\ ~outputs[d].written
            ELSE OwnResult(d)

C5_Witness ==
    /\ pc = "done"
    /\ Len(word_paths) = 2
    /\ ~word_paths[1].exists
    /\ hist[1].phase = << "Pending", "Missing" >>
    /\ ~outputs[1].written
    /\ outputs[2].written
    /\ Len(outputs[2].table.rows) = 2
    /\ hist[2].sent = << 1, 1 >>

\* C8: a spreadsheet that lacks one of the three required fields gives every
\* row the failure outcome whose error names the missing field, and the
\* document's output is still written.
C8_MissingFieldIsRowFailure ==
    \A d \in DocIds :
        (Past(d) /\ Visited(d, "RowProcessing") /\ ~(FieldSet \subseteq InputCols)) =>
            /\ outputs[d].written
            /\ \A i \in 1..excel.nrows :
                  /\ AllFailed(outputs[d].table.rows[i])
                  /\ \E f \in FieldSet \ InputCols :
                        outputs[d].table.rows[i]["error"] = Str(Quoted(f))

\* C9: every document that exists and is normalized enters RowProcessing;
\* every document that enters RowProcessing ends in Written after all its
\* rows; a document that is not written ended as Missing, NormalizeFailed or
\* SpreadsheetReadFailed.
C9_StateMachine ==
    \A d \in DocIds :
        Past(d) =>
            /\ (word_paths[d].exists /\ Visited(d, "Normalized")) =>
                  (Visited(d, "RowProcessing") \/ Visited(d, "SpreadsheetReadFailed"))
            /\ Visited(d, "RowProcessing") =>
                  /\ Last(hist[d].phase) = "Written"
                  /\ Len(hist[d].outcomes) = excel.nrows
            /\ Last(hist[d].phase) \in
                  {"Written", "Missing", "NormalizeFailed", "SpreadsheetReadFailed"}

(***************************************************************************)
(* Properties of the normalizer                                            *)
(***************************************************************************)
Lines(t) == SplitLines(t, << >>)
LineSet(t) == {Lines(t)[i] : i \in 1..Len(Lines(t))}
NoHeadingLine(t) == \A l \in LineSet(t) : ~PageNumMatch(l)
NoDotsLine(t) == \A l \in LineSet(t) : ~DotsSearch(l)
NoTab(t) == \A i \in 1..Len(t) : t[i] # TAB
NoDoubleNL(t) == \A i \in 1..(Len(t) - 1) : ~(t[i] = NL /\ t[i + 1] = NL)

\* C7: normalization is idempotent: normalizing the lines of the normalized
\* text again yields the same text, and the normalized text has no line
\* starting with a section heading, no line with four or more consecutive
\* periods, no tab and no doubled line terminator.
C7_Idempotent ==
    npc = "again" =>
        /\ ret2.text = ret.text
        /\ NoHeadingLine(ret.text)
        /\ NoDotsLine(ret.text)
        /\ NoTab(ret.text)
        /\ NoDoubleNL(ret.text)

\* The whole trimmed paragraph is DI, one or more numerals, TIAO.
IsWholeHeading(text) ==
    /\ Len(text) >= 3
    /\ text[1] = DI
    /\ text[Len(text)] = TIAO
    /\ \A j \in 2..(Len(text) - 1) : text[j] \in Numerals

\* C10: the heading rule drops a trimmed paragraph exactly when the whole
\* paragraph is a heading token; a paragraph with further text after the
\* token and no run of four periods is kept.
C10_HeadingOnly ==
    npc = "read" /\ ret.ok =>
        \A i \in 1..Len(doc.paras) :
            LET text == Strip(doc.paras[i])
            IN /\ (ret.disp[i] = "heading") <=> IsWholeHeading(text)
               /\ (PageNumMatch(text) /\ ~IsWholeHeading(text) /\ ~DotsSearch(text))
                     => ret.disp[i] = "kept"

HasNL(p) == \E i \in 1..Len(p) : p[i] = NL
\* When no paragraph holds a line terminator after trimming, the
\* normalized text is a fixed point and is free of heading lines, leader
\* dots, tabs and doubled terminators.
IdempotentWithoutLineBreaks ==
    (npc = "again" /\ \A i \in 1..Len(doc.paras) : ~HasNL(Strip(doc.paras[i]))) =>
        /\ ret2.text = ret.text
        /\ NoHeadingLine(ret.text)
        /\ NoDotsLine(ret.text)
        /\ NoTab(ret.text)
        /\ NoDoubleNL(ret.text)

====
